---- MODULE Spec2Model ----
(***************************************************************************)
(* A model of iroh-ping (src/src/lib.rs): the client method Ping::ping,    *)
(* the protocol handler Ping::accept, the two metrics counters, and the    *)
(* parts of the transport (endpoint, connection, stream, router) that the  *)
(* two functions call.                                                      *)
(*                                                                         *)
(* A connection c is dialled either by a Ping::ping call or by a foreign   *)
(* initiator, and is answered either by a Ping::accept handler spawned by  *)
(* the router or by a foreign responder.  Each side of a connection has    *)
(* its own view of whether the connection is open.                         *)
(***************************************************************************)
EXTENDS Naturals, Sequences, FiniteSets

\* Number of connections (ping calls plus foreign dials) in a run.
NConn == 2

\* Size limit passed to read_to_end on both sides.
ReadLimit == 4

Conns == 1 .. NConn

\* Transport endpoints a ping call may be given.
Eps == Conns

\* The ping calls run on the client's instance, the router holds the
\* server's instance.
Instances == {"client", "server"}

\* A request payload that is spelt wrongly.
PINGTypo == <<"P", "I", "N", "K">>

PING == <<"P", "I", "N", "G">>

PONG == <<"P", "O", "N", "G">>

\* What a peer that is not this program may put on the stream.
ForeignPayloads ==
    { <<"P", "I", "N">>, PING, PONG, <<"P", "O", "N", "G", "!">> }

Kinds == {"both", "foreignResp", "foreignInit"}

\* Connections are interchangeable: the environment's misbehaviour (a
\* foreign peer, a refused connect, a time-out, a missing identity) is
\* put on connection 1, every other connection is a ping call of this
\* program answered by this program over a transport that delivers.
Troubled(c) == c = 1

VARIABLES
    kind,        \* per connection: who runs each side
    epOf,        \* per connection: the endpoint the ping call was given
    epSt,        \* per endpoint: "open", "closing", "closed"
    router,      \* "running" or "stopped"
    metrics,     \* per instance: the two counters
    ppc,         \* per connection: position of the ping call
    perr,        \* per connection: the error the ping call met ("none" if none)
    response,    \* per connection: the bytes read_to_end gave the ping call
    apc,         \* per connection: position of the accept handler
    aerr,        \* per connection: the error the accept handler met
    initSt,      \* per connection: the initiator's view of the connection
    respSt,      \* per connection: the responder's view of the connection
    closeToResp, \* per connection: the initiator's close frame
    closeToInit, \* per connection: the responder's close frame is under way
    c2s,         \* per connection: stream, initiator to responder
    s2c,         \* per connection: stream, responder to initiator
    done,        \* per connection: the steps the ping call has executed
    adone,       \* per connection: the steps the accept handler has executed
    nConnect,    \* per connection: connection attempts made by the ping call
    sample,      \* per connection: the steps executed at each clock reading
    closeFrame,  \* per connection: the close frame queued by the ping call
    extra,       \* per connection: the remote has opened further streams
    nAccepted    \* per connection: streams the accept handler has accepted

vars ==
    << kind, epOf, epSt, router, metrics, ppc, perr, response, apc, aerr,
       initSt, respSt, closeToResp, closeToInit, c2s, s2c, done, adone,
       nConnect, sample, closeFrame, extra, nAccepted >>

EmptyStream == [data |-> <<>>, fin |-> FALSE]

\* No close frame has been queued.
NoFrame == [by |-> "none", code |-> 0, reason |-> ""]

\* Metrics::default(): both counters zero.
MetricsDefault == [pings_sent |-> 0, pings_recv |-> 0]

\* Ping::new(): a fresh instance with its own zeroed metrics.
PingNew == MetricsDefault

\* A counter that counts an exchange twice.
IncTwice(n) == n + 2

\* An increment made on a copy of the counters that starts from zero.
IncOnCopy(n) == 1

\* Counter::inc
Inc(n) == n + 1

\* self.metrics.pings_sent.inc(): only pings_sent changes.
CountSent(m) == [m EXCEPT !.pings_sent = Inc(@)]

\* A handler that counts on the counter of the other role.
CountRecvAsSent(m) == CountSent(m)

\* metrics.pings_recv.inc(): only pings_recv changes.
CountRecv(m) == [m EXCEPT !.pings_recv = Inc(@)]

OurPing(c) == kind[c] \in {"both", "foreignResp"}

OurAccept(c) == kind[c] \in {"both", "foreignInit"}

TypeOK ==
    /\ kind \in [Conns -> Kinds]
    /\ epOf \in [Conns -> Eps]
    /\ epSt \in [Eps -> {"open", "closing", "closed"}]
    /\ router \in {"running", "stopped"}
    /\ metrics \in [Instances -> [pings_sent : Nat, pings_recv : Nat]]
    /\ initSt \in [Conns -> {"none", "open", "closed"}]
    /\ respSt \in [Conns -> {"none", "open", "closed"}]
    /\ closeToResp \in [Conns -> {"none", "queued", "sent"}]
    /\ closeToInit \in [Conns -> BOOLEAN]

InitCommon ==
    /\ epOf \in [Conns -> Eps]
    /\ \A c \in Conns : epOf[c] <= c /\ epOf[epOf[c]] = epOf[c]
    /\ \A c, d \in Conns :
          (~Troubled(c) /\ c < d /\ Troubled(epOf[d])) => epOf[c] = epOf[d]
    /\ epSt = [e \in Eps |-> "open"]
    /\ router = "running"
    /\ metrics = [i \in Instances |-> PingNew]
    /\ ppc = [c \in Conns |-> IF OurPing(c) THEN "connect" ELSE "foreign"]
    /\ perr = [c \in Conns |-> "none"]
    /\ response = [c \in Conns |-> <<>>]
    /\ apc = [c \in Conns |-> IF OurAccept(c) THEN "none" ELSE "foreign"]
    /\ aerr = [c \in Conns |-> "none"]
    /\ initSt = [c \in Conns |-> "none"]
    /\ respSt = [c \in Conns |-> "none"]
    /\ closeToResp = [c \in Conns |-> "none"]
    /\ closeToInit = [c \in Conns |-> FALSE]
    /\ c2s = [c \in Conns |-> EmptyStream]
    /\ s2c = [c \in Conns |-> EmptyStream]
    /\ done = [c \in Conns |-> {}]
    /\ adone = [c \in Conns |-> {}]
    /\ nConnect = [c \in Conns |-> 0]
    /\ sample = [c \in Conns |-> <<>>]
    /\ closeFrame = [c \in Conns |-> NoFrame]
    /\ extra = [c \in Conns |-> FALSE]
    /\ nAccepted = [c \in Conns |-> 0]

Init ==
    /\ kind \in [Conns -> Kinds]
    /\ \A c \in Conns : ~Troubled(c) => kind[c] = "both"
    /\ InitCommon
    /\ \A c, d \in Conns : kind[c] = "foreignInit" /\ epOf[d] = c => d = c

----------------------------------------------------------------------------
(* Ping::ping *)

\* An error that is dropped: the call goes on with its next step.
AfterErrIgnored(next) == next

\* The `?` operator: the position of a call after a step returned Err.
AfterErr(next) == "err"

PingFail(c, e, next) ==
    /\ ppc' = [ppc EXCEPT ![c] = AfterErr(next)]
    /\ perr' = [perr EXCEPT ![c] = e]

PingStep(c, step, next) ==
    /\ ppc' = [ppc EXCEPT ![c] = next]
    /\ done' = [done EXCEPT ![c] = @ \cup {step}]

\* Instant::now(): a reading of the clock, told by the steps the call has
\* executed when it is made.
Now(steps) == steps

\* let start = Instant::now();
StartSample(steps) == << Now(steps) >>

\* A clock that is read for the end of the interval when the response has
\* been read.
EndSampleAtRead(step, s, steps) ==
    IF step = "read" THEN Append(s, Now(steps)) ELSE s

\* Instant::now().duration_since(start) in the returned expression: the
\* clock is read for the end of the interval after the increment, the last
\* step before the return.
EndSample(step, s, steps) ==
    IF step = "inc" THEN Append(s, Now(steps)) ELSE s

\* An endpoint that still connects after a successful ping, as one that was
\* only flushed would.
CanConnectOnFlushed(c) == kind[c] = "both" => router = "running"

\* endpoint.connect succeeds on an endpoint that is open, to a responder
\* that accepts connections: an endpoint that endpoint.close() has closed
\* connects no more.
CanConnect(c) ==
    /\ epSt[epOf[c]] = "open"
    /\ kind[c] = "both" => router = "running"

\* let start = Instant::now(); endpoint.connect(addr, ALPN).await?
PingConnect(c) ==
    /\ OurPing(c)
    /\ ppc[c] = "connect"
    /\ nConnect' = [nConnect EXCEPT ![c] = @ + 1]
    /\ IF CanConnect(c)
       THEN /\ PingStep(c, "connect", "open_bi")
            /\ initSt' = [initSt EXCEPT ![c] = "open"]
            /\ respSt' = [respSt EXCEPT ![c] = "open"]
            /\ UNCHANGED perr
       ELSE /\ PingFail(c, "ConnectionError", "open_bi")
            /\ done' = [done EXCEPT ![c] = @ \cup {"connect"}]
            /\ UNCHANGED <<initSt, respSt>>
    /\ sample' = [sample EXCEPT ![c] = StartSample(done[c])]
    /\ UNCHANGED << kind, epOf, epSt, router, metrics, response, apc, aerr,
                    closeToResp, closeToInit, c2s, s2c, adone, closeFrame,
                    extra, nAccepted >>

\* endpoint.connect(addr, ALPN).await? when the peer is unreachable or
\* refuses the ALPN.
PingConnectRefused(c) ==
    /\ OurPing(c)
    /\ ppc[c] = "connect"
    /\ Troubled(c)
    /\ nConnect' = [nConnect EXCEPT ![c] = @ + 1]
    /\ PingFail(c, "ConnectionError", "open_bi")
    /\ done' = [done EXCEPT ![c] = @ \cup {"connect"}]
    /\ sample' = [sample EXCEPT ![c] = StartSample(done[c])]
    /\ UNCHANGED << kind, epOf, epSt, router, metrics, response, apc, aerr,
                    initSt, respSt, closeToResp, closeToInit, c2s, s2c,
                    adone, closeFrame, extra, nAccepted >>

\* conn.open_bi().await?
PingOpenBi(c) ==
    /\ ppc[c] = "open_bi"
    /\ IF initSt[c] = "open"
       THEN PingStep(c, "open_bi", "write") /\ UNCHANGED perr
       ELSE /\ PingFail(c, "StreamError", "write")
            /\ done' = [done EXCEPT ![c] = @ \cup {"open_bi"}]
    /\ UNCHANGED << kind, epOf, epSt, router, metrics, response, apc, aerr,
                    initSt, respSt, closeToResp, closeToInit, c2s, s2c,
                    nConnect, adone, sample, closeFrame, extra, nAccepted >>

\* send.write_all(b"PING").await?  The four bytes fit the stream's window:
\* the write puts all of them on the stream, or, on a connection that is
\* lost, none.
PingWrite(c) ==
    /\ ppc[c] = "write"
    /\ IF initSt[c] = "open"
       THEN /\ PingStep(c, "write", "finish")
            /\ c2s' = [c2s EXCEPT ![c].data = @ \o PING]
            /\ UNCHANGED perr
       ELSE /\ PingFail(c, "WriteError", "finish")
            /\ done' = [done EXCEPT ![c] = @ \cup {"write"}]
            /\ UNCHANGED c2s
    /\ UNCHANGED << kind, epOf, epSt, router, metrics, response, apc, aerr,
                    initSt, respSt, closeToResp, closeToInit, s2c,
                    nConnect, adone, sample, closeFrame, extra, nAccepted >>

\* A finish that is forgotten: the stream's end is never marked.
FinishForgotten(stream) == stream

\* SendStream::finish: the stream's end is marked.
Finished(stream) == [stream EXCEPT !.fin = TRUE]

\* send.finish()?  The call is synchronous; on a connection that is already
\* lost the transport may report the stream as closed.
PingFinish(c) ==
    /\ ppc[c] = "finish"
    /\ \E ok \in BOOLEAN :
          /\ (initSt[c] = "open") => ok
          /\ IF ok
             THEN /\ PingStep(c, "finish", "read")
                  /\ c2s' = [c2s EXCEPT ![c] = Finished(@)]
                  /\ UNCHANGED perr
             ELSE /\ PingFail(c, "ClosedStream", "read")
                  /\ done' = [done EXCEPT ![c] = @ \cup {"finish"}]
                  /\ UNCHANGED c2s
    /\ UNCHANGED << kind, epOf, epSt, router, metrics, response, apc, aerr,
                    initSt, respSt, closeToResp, closeToInit, s2c,
                    nConnect, adone, sample, closeFrame, extra, nAccepted >>

\* recv.read_to_end(4): what the call yields once it completes.
ReadToEnd(st, stream) ==
    IF st # "open" THEN [ok |-> FALSE, err |-> "ReadError", bytes |-> <<>>]
    ELSE IF Len(stream.data) > ReadLimit
         THEN [ok |-> FALSE, err |-> "TooLong", bytes |-> <<>>]
         ELSE [ok |-> TRUE, err |-> "none", bytes |-> stream.data]

\* A read that completes as soon as bytes have arrived, without waiting for
\* the end of the stream.
ReadReadyOnData(st, stream) ==
    st # "open" \/ Len(stream.data) > 0

\* recv.read_to_end(4) completes on the end of the stream, on more bytes
\* than the limit, or on the loss of the connection.
ReadReady(st, stream) ==
    st # "open" \/ stream.fin \/ Len(stream.data) > ReadLimit

\* assert_eq!(&response, b"PONG"): the position after the assertion.
AfterAssert(bytes, expected, next) ==
    IF bytes = expected THEN next ELSE "panic"

\* The close frame of conn.close(0u32.into(), b"bye!").
ByeFrame == [by |-> "conn.close", code |-> 0, reason |-> "bye!"]

\* The close frame of a connection that is closed without a call of
\* conn.close: by the drop of its last handle or by the close of its
\* endpoint.  It carries no reason.
ImplicitFrame(by) == [by |-> by, code |-> 0, reason |-> ""]

\* Leaving ping drops `conn`: a connection that is still open is closed
\* implicitly and its close frame queued.
DropInit(c, leaving) ==
    /\ initSt' = [initSt EXCEPT ![c] =
                     IF leaving /\ @ = "open" THEN "closed" ELSE @]
    /\ closeToResp' = [closeToResp EXCEPT ![c] =
                     IF leaving /\ initSt[c] = "open" THEN "queued" ELSE @]
    /\ closeFrame' = [closeFrame EXCEPT ![c] =
                     IF leaving /\ initSt[c] = "open"
                     THEN ImplicitFrame("drop") ELSE @]

\* let response = recv.read_to_end(4).await?; assert_eq!(&response, b"PONG");
PingRead(c) ==
    /\ ppc[c] = "read"
    /\ ReadReady(initSt[c], s2c[c])
    /\ LET r == ReadToEnd(initSt[c], s2c[c]) IN
       IF r.ok
       THEN /\ PingStep(c, "read", AfterAssert(r.bytes, PONG, "close"))
            /\ response' = [response EXCEPT ![c] = r.bytes]
            /\ DropInit(c, AfterAssert(r.bytes, PONG, "close") = "panic")
            /\ UNCHANGED perr
       ELSE /\ PingFail(c, r.err, "close")
            /\ done' = [done EXCEPT ![c] = @ \cup {"read"}]
            /\ DropInit(c, AfterErr("close") = "err")
            /\ UNCHANGED response
    /\ sample' = [sample EXCEPT ![c] = EndSample("read", @, done'[c])]
    /\ UNCHANGED << kind, epOf, epSt, router, metrics, apc, aerr,
                    respSt, closeToInit, c2s, s2c, nConnect, adone, extra,
                    nAccepted >>

\* A close after which pings_sent is incremented at once, before the
\* endpoint is closed.
PingCloseCounting(c) ==
    /\ ppc[c] = "close"
    /\ ppc' = [ppc EXCEPT ![c] = "ep_close"]
    /\ done' = [done EXCEPT ![c] = @ \cup {"close", "inc"}]
    /\ initSt' = [initSt EXCEPT ![c] = "closed"]
    /\ closeToResp' = [closeToResp EXCEPT ![c] =
                          IF initSt[c] = "open" THEN "queued" ELSE @]
    /\ closeFrame' = [closeFrame EXCEPT ![c] =
                          IF initSt[c] = "open" THEN ByeFrame ELSE @]
    /\ metrics' = [metrics EXCEPT !["client"].pings_sent = Inc(@)]
    /\ UNCHANGED << kind, epOf, epSt, router, perr, response, apc,
                    aerr, respSt, closeToInit, c2s, s2c, nConnect, adone,
                    sample, extra, nAccepted >>

\* conn.close(0u32.into(), b"bye!"): closes the connection locally and only
\* queues the close frame.
PingClose(c) ==
    /\ ppc[c] = "close"
    /\ PingStep(c, "close", "ep_close")
    /\ initSt' = [initSt EXCEPT ![c] = "closed"]
    /\ closeToResp' = [closeToResp EXCEPT ![c] =
                          IF initSt[c] = "open" THEN "queued" ELSE @]
    /\ closeFrame' = [closeFrame EXCEPT ![c] =
                          IF initSt[c] = "open" THEN ByeFrame ELSE @]
    /\ UNCHANGED << kind, epOf, epSt, router, metrics, perr, response, apc,
                    aerr, respSt, closeToInit, c2s, s2c, nConnect, adone,
                    sample, extra, nAccepted >>

\* The connections of endpoint e that are still open on the initiator's side.
OpenOn(e) == {d \in Conns : OurPing(d) /\ epOf[d] = e /\ initSt[d] = "open"}

\* endpoint.close().await, the call: the endpoint stops and closes every
\* connection it still has.
PingEpClose(c) ==
    /\ ppc[c] = "ep_close"
    /\ PingStep(c, "ep_close", "ep_wait")
    /\ epSt' = [epSt EXCEPT ![epOf[c]] = IF @ = "open" THEN "closing" ELSE @]
    /\ initSt' = [d \in Conns |->
                     IF d \in OpenOn(epOf[c]) THEN "closed" ELSE initSt[d]]
    /\ closeToResp' = [d \in Conns |->
                     IF d \in OpenOn(epOf[c]) THEN "queued" ELSE closeToResp[d]]
    /\ closeFrame' = [d \in Conns |->
                     IF d \in OpenOn(epOf[c])
                     THEN ImplicitFrame("endpoint.close") ELSE closeFrame[d]]
    /\ UNCHANGED << kind, epOf, router, metrics, perr, response, apc, aerr,
                    respSt, closeToInit, c2s, s2c, nConnect, adone, sample,
                    extra, nAccepted >>

\* The close frames of endpoint e that are queued and not yet sent.
Queued(e) == {d \in Conns : OurPing(d) /\ epOf[d] = e /\ closeToResp[d] = "queued"}

\* An endpoint close that is not awaited.
EpCloseNotAwaited(e) == TRUE

\* endpoint.close().await completes when every queued close frame of the
\* endpoint has been sent.
EpCloseReady(e) == Queued(e) = {}

\* endpoint.close().await completes; self.metrics.pings_sent.inc();
\* Ok(Duration::from_millis(..)).  Nothing is awaited between the three.
PingEpCloseDone(c) ==
    /\ ppc[c] = "ep_wait"
    /\ EpCloseReady(epOf[c])
    /\ PingStep(c, "inc", "ok")
    /\ epSt' = [epSt EXCEPT ![epOf[c]] = "closed"]
    /\ metrics' = [metrics EXCEPT !["client"] = CountSent(@)]
    /\ sample' = [sample EXCEPT ![c] = EndSample("inc", @, done'[c])]
    /\ UNCHANGED << kind, epOf, router, perr, response, apc, aerr,
                    initSt, respSt, closeToResp, closeToInit, c2s, s2c,
                    nConnect, adone, closeFrame, extra, nAccepted >>

----------------------------------------------------------------------------
(* The transport between the two sides *)

\* The endpoint's driver sends a queued close frame.
Transmit(c) ==
    /\ closeToResp[c] = "queued"
    /\ closeToResp' = [closeToResp EXCEPT ![c] = "sent"]
    /\ UNCHANGED << kind, epOf, epSt, router, metrics, ppc, perr, response,
                    apc, aerr, initSt, respSt, closeToInit, c2s, s2c, done,
                    nConnect, adone, sample, closeFrame, extra, nAccepted >>

\* The initiator's close frame reaches the responder.
DeliverClose(c) ==
    /\ closeToResp[c] = "sent"
    /\ respSt[c] = "open"
    /\ respSt' = [respSt EXCEPT ![c] = "closed"]
    /\ UNCHANGED << kind, epOf, epSt, router, metrics, ppc, perr, response,
                    apc, aerr, initSt, closeToResp, closeToInit, c2s, s2c,
                    done, nConnect, adone, sample, closeFrame, extra,
                    nAccepted >>

\* The responder's close frame reaches the initiator.
DeliverCloseToInit(c) ==
    /\ closeToInit[c]
    /\ closeToInit' = [closeToInit EXCEPT ![c] = FALSE]
    /\ initSt' = [initSt EXCEPT ![c] = IF @ = "open" THEN "closed" ELSE @]
    /\ UNCHANGED << kind, epOf, epSt, router, metrics, ppc, perr, response,
                    apc, aerr, respSt, closeToResp, c2s, s2c, done,
                    nConnect, adone, sample, closeFrame, extra, nAccepted >>

\* The initiator's side gives the connection up (idle time-out, reset).
InitTimeout(c) ==
    /\ initSt[c] = "open"
    /\ Troubled(c)
    /\ initSt' = [initSt EXCEPT ![c] = "closed"]
    /\ UNCHANGED << kind, epOf, epSt, router, metrics, ppc, perr, response,
                    apc, aerr, respSt, closeToResp, closeToInit, c2s, s2c,
                    done, nConnect, adone, sample, closeFrame, extra,
                    nAccepted >>

\* The responder's side gives the connection up (idle time-out, reset).
RespTimeout(c) ==
    /\ respSt[c] = "open"
    /\ Troubled(c)
    /\ respSt' = [respSt EXCEPT ![c] = "closed"]
    /\ UNCHANGED << kind, epOf, epSt, router, metrics, ppc, perr, response,
                    apc, aerr, initSt, closeToResp, closeToInit, c2s, s2c,
                    done, nConnect, adone, sample, closeFrame, extra,
                    nAccepted >>

----------------------------------------------------------------------------
(* Ping::accept, and the router that spawns it *)

\* Router::builder(ep).accept(ALPN, Ping::new()).spawn(): the router hands
\* each inbound connection with the ALPN to accept, on a task of its own.
Dispatchable(c) ==
    /\ OurAccept(c)
    /\ router = "running"
    /\ apc[c] = "none"
    /\ respSt[c] # "none"

\* Leaving accept drops `connection`: a connection that is still open is
\* closed implicitly and the peer is told.
DropResp(c, leaving) ==
    /\ respSt' = [respSt EXCEPT ![c] =
                     IF leaving /\ @ = "open" THEN "closed" ELSE @]
    /\ closeToInit' = [closeToInit EXCEPT ![c] =
                     IF leaving /\ respSt[c] = "open" THEN TRUE ELSE @]

AcceptStep(c, step, next) ==
    /\ apc' = [apc EXCEPT ![c] = next]
    /\ adone' = [adone EXCEPT ![c] = @ \cup {step}]

\* An error that the handler swallows: it goes on to wait for the closure
\* and to count.
AcceptFailSwallowed(c, e, step) ==
    /\ AcceptStep(c, step, "closed")
    /\ aerr' = [aerr EXCEPT ![c] = e]
    /\ DropResp(c, FALSE)

\* The `?` operator in accept: the handler returns the error.
AcceptFail(c, e, step) ==
    /\ AcceptStep(c, step, "err")
    /\ aerr' = [aerr EXCEPT ![c] = e]
    /\ DropResp(c, TRUE)

\* The handler starts: let node_id = connection.remote_node_id()?;
AcceptNodeId(c) ==
    /\ Dispatchable(c)
    /\ AcceptStep(c, "node_id", "accept_bi")
    /\ UNCHANGED << kind, epOf, epSt, router, metrics, ppc, perr, response,
                    aerr, initSt, respSt, closeToResp, closeToInit, c2s,
                    s2c, done, nConnect, sample, closeFrame, extra,
                    nAccepted >>

\* The handler starts and the transport has no identity for the peer:
\* connection.remote_node_id()? returns the error.
AcceptNodeIdMissing(c) ==
    /\ Dispatchable(c)
    /\ Troubled(c)
    /\ AcceptFail(c, "PeerIdentityError", "node_id")
    /\ UNCHANGED << kind, epOf, epSt, router, metrics, ppc, perr, response,
                    initSt, closeToResp, c2s, s2c, done, nConnect, sample,
                    closeFrame, extra, nAccepted >>

\* The peer's stream becomes visible with its first frame.
StreamOffered(stream) == Len(stream.data) > 0 \/ stream.fin

\* connection.accept_bi().await?
AcceptBi(c) ==
    /\ apc[c] = "accept_bi"
    /\ respSt[c] # "open" \/ StreamOffered(c2s[c])
    /\ IF respSt[c] = "open"
       THEN /\ AcceptStep(c, "accept_bi", "read")
            /\ nAccepted' = [nAccepted EXCEPT ![c] = @ + 1]
            /\ UNCHANGED <<aerr, respSt, closeToInit>>
       ELSE AcceptFail(c, "StreamError", "accept_bi") /\ UNCHANGED nAccepted
    /\ UNCHANGED << kind, epOf, epSt, router, metrics, ppc, perr, response,
                    initSt, closeToResp, c2s, s2c, done, nConnect, sample,
                    closeFrame, extra >>

\* let req = recv.read_to_end(4).await.map_err(AcceptError::from_err)?;
\* assert_eq!(&req, b"PING");
AcceptRead(c) ==
    /\ apc[c] = "read"
    /\ ReadReady(respSt[c], c2s[c])
    /\ LET r == ReadToEnd(respSt[c], c2s[c]) IN
       IF r.ok
       THEN /\ AcceptStep(c, "read", AfterAssert(r.bytes, PING, "write"))
            /\ DropResp(c, AfterAssert(r.bytes, PING, "write") = "panic")
            /\ UNCHANGED aerr
       ELSE AcceptFail(c, r.err, "read")
    /\ UNCHANGED << kind, epOf, epSt, router, metrics, ppc, perr, response,
                    initSt, closeToResp, c2s, s2c, done, nConnect, sample,
                    closeFrame, extra, nAccepted >>

\* send.write_all(b"PONG").await.map_err(AcceptError::from_err)?
AcceptWrite(c) ==
    /\ apc[c] = "write"
    /\ IF respSt[c] = "open"
       THEN /\ AcceptStep(c, "write", "finish")
            /\ s2c' = [s2c EXCEPT ![c].data = @ \o PONG]
            /\ UNCHANGED <<aerr, respSt, closeToInit>>
       ELSE AcceptFail(c, "WriteError", "write") /\ UNCHANGED s2c
    /\ UNCHANGED << kind, epOf, epSt, router, metrics, ppc, perr, response,
                    initSt, closeToResp, c2s, done, nConnect, sample,
                    closeFrame, extra, nAccepted >>

\* A handler that serves the next stream of the connection when there is
\* one.
AfterFinishServeNext(more) == IF more THEN "accept_bi" ELSE "closed"

\* After send.finish() the handler waits for the closure of the
\* connection, whether or not the remote has opened more streams: accept_bi
\* is not called again.
AfterFinish(more) == "closed"

\* send.finish()?
AcceptFinish(c) ==
    /\ apc[c] = "finish"
    /\ \E ok \in BOOLEAN :
          /\ (respSt[c] = "open") => ok
          /\ IF ok
             THEN /\ AcceptStep(c, "finish", AfterFinish(extra[c]))
                  /\ s2c' = [s2c EXCEPT ![c] = Finished(@)]
                  /\ UNCHANGED <<aerr, respSt, closeToInit>>
             ELSE AcceptFail(c, "ClosedStream", "finish") /\ UNCHANGED s2c
    /\ UNCHANGED << kind, epOf, epSt, router, metrics, ppc, perr, response,
                    initSt, closeToResp, c2s, done, nConnect, sample,
                    closeFrame, extra, nAccepted >>

\* A handler that does not wait for the connection to be closed.
ClosedReadyAtOnce(st) == TRUE

\* connection.closed().await returns once the connection is closed, for
\* whatever reason.
ClosedReady(st) == st = "closed"

\* connection.closed().await; metrics.pings_recv.inc(); Ok(())
AcceptClosed(c) ==
    /\ apc[c] = "closed"
    /\ ClosedReady(respSt[c])
    /\ AcceptStep(c, "inc", "ok")
    /\ metrics' = [metrics EXCEPT !["server"] = CountRecv(@)]
    /\ UNCHANGED << kind, epOf, epSt, router, ppc, perr, response, aerr,
                    initSt, respSt, closeToResp, closeToInit, c2s, s2c,
                    done, nConnect, sample, closeFrame, extra, nAccepted >>

\* The handler's task is still running.
Running(c) ==
    apc[c] \in {"accept_bi", "read", "write", "finish", "closed"}

\* The router's loop ends when a handler's task has panicked: it cancels
\* the handlers still running and closes its endpoint.
RouterQuit ==
    /\ router = "running"
    /\ \E c \in Conns : apc[c] = "panic"
    /\ router' = "stopped"
    /\ apc' = [c \in Conns |-> IF Running(c) THEN "cancelled" ELSE apc[c]]
    /\ respSt' = [c \in Conns |->
                     IF OurAccept(c) /\ respSt[c] = "open"
                     THEN "closed" ELSE respSt[c]]
    /\ closeToInit' = [c \in Conns |->
                     IF OurAccept(c) /\ respSt[c] = "open"
                     THEN TRUE ELSE closeToInit[c]]
    /\ UNCHANGED << kind, epOf, epSt, metrics, ppc, perr, response, aerr,
                    initSt, closeToResp, c2s, s2c, done, adone, nConnect,
                    sample, closeFrame, extra, nAccepted >>

----------------------------------------------------------------------------
(* Peers that are not this program *)

\* A foreign initiator connects with the ALPN.
ForeignDial(c) ==
    /\ kind[c] = "foreignInit"
    /\ initSt[c] = "none"
    /\ router = "running"
    /\ initSt' = [initSt EXCEPT ![c] = "open"]
    /\ respSt' = [respSt EXCEPT ![c] = "open"]
    /\ UNCHANGED << kind, epOf, epSt, router, metrics, ppc, perr, response,
                    apc, aerr, closeToResp, closeToInit, c2s, s2c, done,
                    nConnect, adone, sample, closeFrame, extra, nAccepted >>

\* A foreign initiator opens a stream, writes p and ends its output: the
\* right request, a short one or one that is too long.
ForeignRequest(c, p) ==
    /\ kind[c] = "foreignInit"
    /\ p # PONG
    /\ initSt[c] = "open"
    /\ c2s[c] = EmptyStream
    /\ c2s' = [c2s EXCEPT ![c] = [data |-> p, fin |-> TRUE]]
    /\ UNCHANGED << kind, epOf, epSt, router, metrics, ppc, perr, response,
                    apc, aerr, initSt, respSt, closeToResp, closeToInit,
                    s2c, done, nConnect, adone, sample, closeFrame, extra,
                    nAccepted >>

\* A foreign initiator that has opened its stream opens more streams on the
\* same connection.
ForeignMoreStreams(c) ==
    /\ kind[c] = "foreignInit"
    /\ initSt[c] = "open"
    /\ StreamOffered(c2s[c])
    /\ ~extra[c]
    /\ extra' = [extra EXCEPT ![c] = TRUE]
    /\ UNCHANGED << kind, epOf, epSt, router, metrics, ppc, perr, response,
                    apc, aerr, initSt, respSt, closeToResp, closeToInit,
                    c2s, s2c, done, nConnect, adone, sample, closeFrame,
                    nAccepted >>

\* A foreign initiator closes the connection.
ForeignClose(c) ==
    /\ kind[c] = "foreignInit"
    /\ initSt[c] = "open"
    /\ initSt' = [initSt EXCEPT ![c] = "closed"]
    /\ closeToResp' = [closeToResp EXCEPT ![c] = "sent"]
    /\ UNCHANGED << kind, epOf, epSt, router, metrics, ppc, perr, response,
                    apc, aerr, respSt, closeToInit, c2s, s2c, done,
                    nConnect, adone, sample, closeFrame, extra, nAccepted >>

\* A foreign responder writes p on the stream and ends its output: the
\* right response, a short one or one that is too long.
ForeignRespond(c, p) ==
    /\ kind[c] = "foreignResp"
    /\ p # PING
    /\ respSt[c] = "open"
    /\ StreamOffered(c2s[c])
    /\ s2c[c] = EmptyStream
    /\ s2c' = [s2c EXCEPT ![c] = [data |-> p, fin |-> TRUE]]
    /\ UNCHANGED << kind, epOf, epSt, router, metrics, ppc, perr, response,
                    apc, aerr, initSt, respSt, closeToResp, closeToInit,
                    c2s, done, nConnect, adone, sample, closeFrame, extra,
                    nAccepted >>

----------------------------------------------------------------------------
(* Specifications *)

PingNext(c) ==
    \/ PingConnect(c)
    \/ PingOpenBi(c)
    \/ PingWrite(c)
    \/ PingFinish(c)
    \/ PingRead(c)
    \/ PingClose(c)
    \/ PingEpClose(c)
    \/ PingEpCloseDone(c)

AcceptNext(c) ==
    \/ AcceptNodeId(c)
    \/ AcceptBi(c)
    \/ AcceptRead(c)
    \/ AcceptWrite(c)
    \/ AcceptFinish(c)
    \/ AcceptClosed(c)

Next ==
    \/ \E c \in Conns : PingNext(c)
    \/ \E c \in Conns : AcceptNext(c)
    \/ \E c \in Conns : Transmit(c) \/ DeliverClose(c) \/ DeliverCloseToInit(c)
    \/ \E c \in Conns : PingConnectRefused(c) \/ AcceptNodeIdMissing(c)
    \/ \E c \in Conns : InitTimeout(c) \/ RespTimeout(c)
    \/ RouterQuit
    \/ \E c \in Conns : ForeignDial(c) \/ ForeignClose(c)
    \/ \E c \in Conns : ForeignMoreStreams(c)
    \/ \E c \in Conns, p \in ForeignPayloads :
           ForeignRequest(c, p) \/ ForeignRespond(c, p)

Spec == Init /\ [][Next]_vars

\* Every side is this program and the transport loses nothing.
InitReliable ==
    /\ kind = [c \in Conns |-> "both"]
    /\ InitCommon

NextReliable ==
    \/ \E c \in Conns : PingNext(c)
    \/ \E c \in Conns : AcceptNext(c)
    \/ \E c \in Conns : Transmit(c) \/ DeliverClose(c)

\* Every task is scheduled and every frame is delivered in the end.
SpecReliable == InitReliable /\ [][NextReliable]_vars /\ WF_vars(NextReliable)

----------------------------------------------------------------------------
(* Properties *)

Card(S) == Cardinality(S)

\* The ping call of connection c is the only one on its endpoint.
Alone(c) == \A d \in Conns : d # c => epOf[d] # epOf[c]

\* C1: over a transport that delivers, with this program on both sides, a
\* ping call that has its endpoint to itself eventually returns Ok and the
\* accept handler of its connection eventually returns Ok: neither side
\* waits on the other for ever.
C1_Progress ==
    \A c \in Conns : Alone(c) => <>(ppc[c] = "ok" /\ apc[c] = "ok")

C1_Witness ==
    \E c \in Conns : Alone(c) /\ ppc[c] = "ok" /\ apc[c] = "ok"

\* C2: pings_sent is the number of ping calls that returned Ok and
\* pings_recv the number of accept handlers that returned Ok: each
\* successful call and each successful handler counts exactly once, and
\* nothing else counts.
C2_ExactlyOnce ==
    /\ metrics["client"].pings_sent = Card({c \in Conns : ppc[c] = "ok"})
    /\ metrics["server"].pings_recv = Card({c \in Conns : apc[c] = "ok"})

\* One exchange has succeeded on both sides, from fresh instances.
C2_Witness ==
    /\ \E c \in Conns : ppc[c] = "ok" /\ apc[c] = "ok"
    /\ metrics["client"].pings_sent = 1
    /\ metrics["server"].pings_recv = 1

\* The ping call of connection c has read the whole stream (its read did
\* not fail on the connection) and the bytes were not exactly "PONG".
GotBadResponse(c) ==
    /\ OurPing(c)
    /\ "read" \in done[c]
    /\ perr[c] # "ReadError"
    /\ s2c[c].data # PONG

\* C3: a ping call that receives anything but exactly "PONG" returns an
\* error to its caller and does not count.
C3_BadResponseIsError ==
    \A c \in Conns : GotBadResponse(c) =>
        ppc[c] = "err" /\ perr[c] # "none" /\ "inc" \notin done[c]

\* The accept handler of connection c has read the whole stream (its read
\* did not fail on the connection) and the bytes were not exactly "PING".
GotBadRequest(c) ==
    /\ OurAccept(c)
    /\ "read" \in adone[c]
    /\ aerr[c] # "ReadError"
    /\ c2s[c].data # PING

\* C4: an accept handler that receives anything but exactly "PING" returns
\* an error to the router, writes no PONG and does not count.
C4_BadRequestIsError ==
    \A c \in Conns : GotBadRequest(c) =>
        /\ apc[c] = "err" /\ aerr[c] # "none"
        /\ s2c[c] = EmptyStream
        /\ "inc" \notin adone[c]

\* The steps ping has executed when the given error is returned.
StepsAtError(e) ==
    CASE e = "ConnectionError" -> {"connect"}
      [] e = "StreamError" -> {"connect", "open_bi"}
      [] e = "WriteError" -> {"connect", "open_bi", "write"}
      [] e = "ClosedStream" -> {"connect", "open_bi", "write", "finish"}
      [] OTHER -> {"connect", "open_bi", "write", "finish", "read"}

\* C5: a ping call whose connect, open_bi, write, finish or read step
\* returned an error has returned that error at once: it has executed no
\* later step (no close, no endpoint close, no increment), and no call
\* connects more than once.
C5_FailureAborts ==
    \A c \in Conns :
        /\ nConnect[c] <= 1
        /\ perr[c] # "none" =>
              /\ ppc[c] = "err"
              /\ done[c] = StepsAtError(perr[c])

\* The connection was lost while the call was reading the response.
C5_Witness ==
    \E c \in Conns :
        /\ perr[c] = "ReadError" /\ ppc[c] = "err"
        /\ s2c[c] = EmptyStream
        /\ \E d \in Conns : d # c /\ ppc[d] = "ok"

\* C6: when the accept handler of a connection has counted, the ping call
\* of that connection has read the whole response "PONG".
C6_CountedAfterRead ==
    \A c \in Conns :
        (kind[c] = "both" /\ "inc" \in adone[c]) =>
            ("read" \in done[c] /\ response[c] = PONG)

\* Every ping call has returned and every handler has ended.
AllEnded ==
    \A c \in Conns :
        /\ ppc[c] \in {"ok", "err", "panic"}
        /\ apc[c] \in {"ok", "err", "panic", "cancelled"}
              \/ (apc[c] = "none" /\ respSt[c] = "none")

\* C7: once the concurrent ping calls against one responder have returned
\* and its handlers have ended, pings_recv is the number of ping calls that
\* returned Ok.
C7_RecvIsSuccessfulCalls ==
    AllEnded =>
        metrics["server"].pings_recv = Card({c \in Conns : ppc[c] = "ok"})

\* C8: over a transport that delivers, no concurrent ping call that has
\* its connection fails: no step of another call makes it fail.
C8_NoCallFails ==
    \A c \in Conns : "open_bi" \in done[c] => ppc[c] # "err"

\* C9: a handler that has failed has returned an error to the router, and
\* no other handler of the instance is kept from completing.
C9_FailureIsolated ==
    \A c \in Conns : apc[c] \in {"err", "panic"} =>
        /\ aerr[c] # "none"
        /\ \A d \in Conns : d # c => apc[d] # "cancelled"

\* C10: when ping has returned Ok, the close frame it queued for its
\* connection has been sent.
C10_CloseSentBeforeOk ==
    \A c \in Conns : ppc[c] = "ok" =>
        ("close" \in done[c] /\ closeToResp[c] # "queued")

\* A call has returned Ok and its close frame is sent, while another
\* call's close frame is still queued.
C10_Witness ==
    \E c \in Conns :
        /\ ppc[c] = "ok" /\ closeToResp[c] = "sent"
        /\ \E d \in Conns : closeToResp[d] = "queued"

\* No counter of any instance is lower after a step than before it.
NeverDecremented ==
    \A i \in Instances :
        /\ metrics'[i].pings_sent >= metrics[i].pings_sent
        /\ metrics'[i].pings_recv >= metrics[i].pings_recv

\* Every call and every handler of an instance has counted on the one pair
\* of counters of the instance.
OnePairOfCounters ==
    /\ metrics["client"].pings_sent =
           Card({c \in Conns : "inc" \in done[c]})
    /\ metrics["server"].pings_recv =
           Card({c \in Conns : "inc" \in adone[c]})

\* C11: both counters of an instance are zero when it is created, no step
\* of any ping call or accept handler lowers or resets a counter, and all
\* calls and handlers of an instance increment the same pair of counters.
C11_CountersOnlyGrow ==
    /\ \A i \in Instances :
           metrics[i].pings_sent = 0 /\ metrics[i].pings_recv = 0
    /\ [][NeverDecremented]_vars
    /\ []OnePairOfCounters

\* Two handlers of the server's instance have counted on its counter.
C11_Witness ==
    /\ metrics["server"].pings_recv = 2
    /\ Card({c \in Conns : "inc" \in adone[c]}) = 2

\* C12 as stated: pings_sent is incremented before the endpoint is drained,
\* so a call that has started to close its endpoint has already counted.
C12_CountedBeforeDrain ==
    \A c \in Conns : "ep_close" \in done[c] => "inc" \in done[c]

\* C12: in a successful ping, pings_sent is incremented after the response
\* has been read and found to be PONG, after the connection was closed and
\* after the close of the endpoint has completed: the order is read, close,
\* drain, increment.
C12_CountedAfterDrain ==
    \A c \in Conns : "inc" \in done[c] =>
        /\ response[c] = PONG
        /\ {"read", "close", "ep_close"} \subseteq done[c]
        /\ epSt[epOf[c]] = "closed"
        /\ closeToResp[c] # "queued"

\* A call has counted, and another call on another endpoint has started to
\* close its endpoint and has not counted yet.
C12_Witness ==
    \E c, d \in Conns :
        /\ "inc" \in done[c] /\ metrics["client"].pings_sent = 1
        /\ "ep_close" \in done[d] /\ "inc" \notin done[d]

\* The steps of the call of connection c that lie between its two readings
\* of the clock.
Measured(c) == sample[c][2] \ sample[c][1]

\* C13 as stated: the measured interval ends when the response has been
\* read; the close of the connection and of the endpoint lie outside it.
C13_EndsAtRead ==
    \A c \in Conns : Len(sample[c]) = 2 =>
        Measured(c) = {"connect", "open_bi", "write", "finish", "read"}

\* C13: the duration returned by a successful ping spans from the clock
\* reading before the connection attempt to a reading made at the return:
\* the connection attempt, the stream, the write, the end of output, the
\* read, the close of the connection, the close and drain of the endpoint
\* and the increment all lie inside the measured interval.
C13_EndsAtReturn ==
    \A c \in Conns :
        /\ ppc[c] = "ok" <=> Len(sample[c]) = 2
        /\ Len(sample[c]) = 2 =>
              /\ sample[c][1] = {}
              /\ Measured(c) = {"connect", "open_bi", "write", "finish",
                                "read", "close", "ep_close", "inc"}

\* A call has returned Ok with the close of its endpoint inside the
\* measured interval.
C13_Witness ==
    \E c \in Conns :
        ppc[c] = "ok" /\ Len(sample[c]) = 2 /\ "ep_close" \in Measured(c)

\* The order of write, end of output and read, on the side of the call and
\* on the side of the handler of connection c.
OrderKept(c) ==
    /\ OurPing(c) =>
          /\ c2s[c].fin => (c2s[c].data = PING /\ "write" \in done[c])
          /\ (ppc[c] = "read" \/ "read" \in done[c]) => c2s[c].fin
    /\ OurAccept(c) =>
          /\ s2c[c].fin => (s2c[c].data = PONG /\ "write" \in adone[c])
          /\ s2c[c].data # <<>> =>
                ("read" \in adone[c] /\ c2s[c].fin /\ s2c[c].data = PONG)

\* A side of this program that has ended its output writes no more on it.
NothingAfterEnd ==
    \A c \in Conns :
        /\ (OurPing(c) /\ c2s[c].fin) => c2s'[c] = c2s[c]
        /\ (OurAccept(c) /\ s2c[c].fin) => s2c'[c] = s2c[c]

\* C14: each side ends its output only after its four bytes are written and
\* writes nothing after that; the call reads only after it has ended its
\* request; the handler writes PONG only after its read of the request has
\* completed, which is after the initiator has ended its output.
C14_WriteEndReadOrder ==
    /\ [](\A c \in Conns : OrderKept(c))
    /\ [][NothingAfterEnd]_vars

\* An exchange between a call and a handler of this program in which both
\* sides have written, ended their output and read.
C14_Witness ==
    \E c \in Conns :
        /\ kind[c] = "both"
        /\ c2s[c] = [data |-> PING, fin |-> TRUE]
        /\ s2c[c] = [data |-> PONG, fin |-> TRUE]
        /\ "read" \in adone[c] /\ response[c] = PONG

IsPrefix(s, t) == Len(s) <= Len(t) /\ s = SubSeq(t, 1, Len(s))

\* C15: the bytes this program has written on the stream towards the
\* responder are a prefix of the four bytes "PING", the bytes it has written
\* towards the initiator are a prefix of the four bytes "PONG", whether the
\* call or the handler succeeds or fails, and neither side writes its
\* payload a second time.
C15_OnlyPingAndPong ==
    \A c \in Conns :
        /\ OurPing(c) => IsPrefix(c2s[c].data, <<"P", "I", "N", "G">>)
        /\ OurAccept(c) => IsPrefix(s2c[c].data, <<"P", "O", "N", "G">>)
        /\ (OurPing(c) /\ "write" \notin done[c]) => c2s[c].data = <<>>
        /\ (OurAccept(c) /\ "write" \notin adone[c]) => s2c[c].data = <<>>

\* Both payloads are on the stream of a connection whose call has failed
\* after its write.
C15_Witness ==
    \E c \in Conns :
        /\ kind[c] = "both"
        /\ c2s[c].data = <<"P", "I", "N", "G">>
        /\ s2c[c].data = <<"P", "O", "N", "G">>
        /\ ppc[c] = "err"

\* The handler of connection c has written PONG and ended its output on
\* the path that meets no error and no cancellation.
AnsweredAlright(c) ==
    /\ OurAccept(c)
    /\ "finish" \in adone[c]
    /\ aerr[c] = "none"
    /\ apc[c] # "cancelled"

\* C16: the connection is closed by a close call only in ping, only after
\* ping has read the complete response PONG, and with code 0 and the
\* message "bye!"; a handler that has written PONG without an error is
\* waiting for the closure or has returned after it, and has not closed
\* the connection itself.
C16_InitiatorClosesFirst ==
    \A c \in Conns :
        /\ (OurPing(c) /\ "close" \in done[c]) =>
              ("read" \in done[c] /\ response[c] = PONG)
        /\ (OurPing(c) /\ closeFrame[c].by = "conn.close") =>
              /\ closeFrame[c].code = 0
              /\ closeFrame[c].reason = "bye!"
              /\ "close" \in done[c]
              /\ response[c] = PONG
        /\ AnsweredAlright(c) =>
              /\ apc[c] \in {"closed", "ok"}
              /\ ~closeToInit[c]
              /\ apc[c] = "ok" => respSt[c] = "closed"

\* The call has closed its connection with "bye!" and its handler has
\* returned after seeing the closure.
C16_Witness ==
    \E c \in Conns :
        /\ kind[c] = "both"
        /\ closeFrame[c] = ByeFrame
        /\ AnsweredAlright(c) /\ apc[c] = "ok" /\ respSt[c] = "closed"

\* The steps the accept handler has executed when it returns error e.
AcceptStepsAtError(e) ==
    CASE e = "PeerIdentityError" -> {"node_id"}
      [] e = "StreamError" -> {"node_id", "accept_bi"}
      [] e = "WriteError" -> {"node_id", "accept_bi", "read", "write"}
      [] e = "ClosedStream" ->
             {"node_id", "accept_bi", "read", "write", "finish"}
      [] OTHER -> {"node_id", "accept_bi", "read"}

\* C17: a handler whose identity, accept-stream, read, write or
\* end-of-output step failed has returned that error: it has executed the
\* steps up to the failing one and no later step, and it has not
\* incremented pings_recv; when the identity is missing it has accepted no
\* stream and has read and written nothing.
C17_AcceptFailureAborts ==
    \A c \in Conns : (OurAccept(c) /\ aerr[c] # "none") =>
        /\ apc[c] = "err"
        /\ adone[c] = AcceptStepsAtError(aerr[c])
        /\ "inc" \notin adone[c]
        /\ ("write" \in adone[c] /\ aerr[c] = "WriteError")
              => s2c[c].data = <<>>
        /\ ~s2c[c].fin
        /\ aerr[c] = "PeerIdentityError" => s2c[c] = EmptyStream

\* The identity of the peer of one connection was missing although its
\* request was waiting, after the handler of another connection had
\* counted: the counter keeps its value.
C17_Witness ==
    \E c \in Conns :
        /\ aerr[c] = "PeerIdentityError" /\ apc[c] = "err"
        /\ c2s[c].fin /\ s2c[c] = EmptyStream
        /\ metrics["server"].pings_recv = 1

\* C18: a handler accepts at most one stream of its connection, also when
\* the remote has opened more; it answers at most once, with PONG on the
\* stream it accepted; and pings_recv counts at most one for each
\* connection on which a stream was accepted.
C18_OneStreamPerConnection ==
    /\ \A c \in Conns : OurAccept(c) =>
          /\ nAccepted[c] <= 1
          /\ "read" \in adone[c] => nAccepted[c] = 1
          /\ Len(s2c[c].data) <= Len(PONG)
    /\ metrics["server"].pings_recv <=
           Card({c \in Conns : OurAccept(c) /\ nAccepted[c] = 1})

\* A remote has opened further streams on a connection whose handler has
\* accepted one stream, counted once and returned.
C18_Witness ==
    \E c \in Conns :
        /\ extra[c] /\ nAccepted[c] = 1
        /\ apc[c] = "ok" /\ metrics["server"].pings_recv = 1

\* The calls on endpoint e that have returned Ok.
OkOn(e) == {c \in Conns : OurPing(c) /\ epOf[c] = e /\ ppc[c] = "ok"}

\* C19 as stated: a successful ping leaves its endpoint closed, and one
\* endpoint has at most one successful ping.
C19_OnePingPerEndpoint ==
    /\ \A c \in Conns : ppc[c] = "ok" => epSt[epOf[c]] = "closed"
    /\ \A e \in Eps : Card(OkOn(e)) <= 1

\* A call on an endpoint on which a ping has returned Ok takes its
\* connection step: it fails there with a connection error, gets no
\* connection and leaves the counters alone.
LaterCallFails ==
    \A d \in Conns :
        (OkOn(epOf[d]) # {} /\ ppc[d] = "connect" /\ ppc'[d] # "connect") =>
            /\ ppc'[d] = "err" /\ perr'[d] = "ConnectionError"
            /\ initSt'[d] = "none"
            /\ metrics' = metrics

\* C19: a successful ping leaves the endpoint it was given closed, and
\* every call that takes its connection step on that endpoint after a ping
\* has returned Ok on it fails at that step without incrementing pings_sent;
\* calls that had their connections before the endpoint was closed can
\* still return Ok, so that one endpoint can have several successful pings.
C19_EndpointClosedAfterOk ==
    /\ [](\A c \in Conns : ppc[c] = "ok" => epSt[epOf[c]] = "closed")
    /\ [](\A c \in Conns :
             (ppc[c] = "err" /\ done[c] = {"connect"}) => "inc" \notin done[c])
    /\ [][LaterCallFails]_vars

\* On one endpoint a call has returned Ok and another call, to a responder
\* that was accepting connections, has failed at its connection step.
C19_Witness ==
    \E c, d \in Conns :
        /\ c # d /\ epOf[c] = epOf[d] /\ ~Troubled(d)
        /\ ppc[c] = "ok" /\ router = "running"
        /\ ppc[d] = "err" /\ perr[d] = "ConnectionError"
        /\ done[d] = {"connect"}

\* A step of a ping call leaves pings_recv of every instance as it was and
\* a step of an accept handler leaves pings_sent of every instance as it
\* was.
OtherCounterKept ==
    /\ (ppc' # ppc \/ done' # done) =>
           \A i \in Instances : metrics'[i].pings_recv = metrics[i].pings_recv
    /\ (apc' # apc \/ adone' # adone) =>
           \A i \in Instances : metrics'[i].pings_sent = metrics[i].pings_sent

\* The ping calls that have started on the client's instance.
Started == {c \in Conns : OurPing(c) /\ nConnect[c] > 0}

\* The connections that were handed to the accept handler of the server's
\* instance.
Handed == {c \in Conns : OurAccept(c) /\ adone[c] # {}}

\* C20: no step of a ping call changes pings_recv and no step of an accept
\* handler changes pings_sent; pings_sent of an instance is at most the
\* number of ping calls started on it and pings_recv is at most the number
\* of connections handed to its accept handler.
C20_CountersPerRole ==
    /\ [][OtherCounterKept]_vars
    /\ [](/\ metrics["client"].pings_recv = 0
          /\ metrics["server"].pings_sent = 0
          /\ metrics["client"].pings_sent <= Card(Started)
          /\ metrics["server"].pings_recv <= Card(Handed))

\* The instance that pings has counted two pings sent and none received,
\* the instance that accepts two pings received and none sent.
C20_Witness ==
    /\ metrics["client"] = [pings_sent |-> 2, pings_recv |-> 0]
    /\ metrics["server"] = [pings_sent |-> 0, pings_recv |-> 2]
    /\ Card(Started) = 2 /\ Card(Handed) = 2

====
